---- MODULE Spec2Model ----
(***************************************************************************)
(* State-machine model of the AdvancedCounter React component              *)
(* (src/unnamed/part_000, lines 16-253): the count / step / history state, *)
(* the debounced save to localStorage, the document-level keyboard         *)
(* listener and the mount / unmount lifecycle.                             *)
(*                                                                         *)
(* One action is one event-loop task: an event handler together with the   *)
(* render it causes and the effects React flushes for that render, or one  *)
(* timer callback.  A pending timeout carries the time left until it is    *)
(* due; time is counted in milliseconds and passes in steps of a quarter   *)
(* of the debounce delay.                                                  *)
(*                                                                         *)
(* React runs the effects of a render before the next event is handled     *)
(* (updates from discrete events are flushed synchronously), so no event   *)
(* sees a render whose effects have not run.  The two lazy initialisers    *)
(* read the store back to back: when storage access is denied both reads   *)
(* throw, otherwise both return the same value.  A write or a removal may  *)
(* throw at any time; the component catches it.                            *)
(*                                                                         *)
(* JavaScript numbers are modelled by the integers: every value the model  *)
(* feeds to Number() is an integer literal, the empty string, "Infinity"   *)
(* or a non-numeric word, so count and step stay finite integers.          *)
(* Strings are sequences of one-character strings.                         *)
(***************************************************************************)
EXTENDS Integers, Sequences, FiniteSets, TLC

\* ------------------------------------------------------------------------
\* Bounds of the model
\* ------------------------------------------------------------------------
MaxTicks == 7        \* length of a timed run, in clock ticks
MaxActiveTicks == 2  \* ticks of a timed run in which the user acts
MaxChanges == 3      \* count changes (to a different value) per session
MaxStored == 1       \* magnitude of the count an earlier session left stored

\* ------------------------------------------------------------------------
\* Program constants
\* ------------------------------------------------------------------------
delay == 400         \* const delay = 400; // ms

TickUnit == delay \div 4
MaxTime == MaxTicks * TickUnit

STORAGE_KEY == "advanced-counter-count"
NoTimer == 0         \* the null of saveTimerRef (timer handles are positive)

\* ------------------------------------------------------------------------
\* String(n) and Number(s) on character sequences
\* ------------------------------------------------------------------------
DigitChars == <<"0", "1", "2", "3", "4", "5", "6", "7", "8", "9">>
Digits == {DigitChars[i] : i \in 1..10}
DigitVal(c) == (CHOOSE i \in 1..10 : DigitChars[i] = c) - 1

RECURSIVE NatToString(_)
NatToString(n) ==
    IF n < 10 THEN <<DigitChars[n + 1]>>
    ELSE Append(NatToString(n \div 10), DigitChars[(n % 10) + 1])

\* String(count) for an integer count
String(n) == IF n < 0 THEN <<"-">> \o NatToString(-n) ELSE NatToString(n)

\* JavaScript number values: a finite number, NaN, or +/-Infinity
Num(n) == [k |-> "num", v |-> n]
NaN == [k |-> "nan", v |-> 0]
Infinity(sign) == [k |-> "inf", v |-> sign]
IsFinite(x) == x.k = "num"
IsNaN(x) == x.k = "nan"

RECURSIVE DigitsToNat(_)
DigitsToNat(s) ==
    IF s = <<>> THEN 0
    ELSE 10 * DigitsToNat(SubSeq(s, 1, Len(s) - 1)) + DigitVal(s[Len(s)])

RECURSIVE Trim(_)
Trim(s) ==
    IF s = <<>> THEN s
    ELSE IF s[1] = " " THEN Trim(Tail(s))
    ELSE IF s[Len(s)] = " " THEN Trim(SubSeq(s, 1, Len(s) - 1))
    ELSE s

InfinityWord == <<"I", "n", "f", "i", "n", "i", "t", "y">>

UnsignedNumber(s) ==
    IF s = InfinityWord THEN Infinity(1)
    ELSE IF s # <<>> /\ \A i \in 1..Len(s) : s[i] \in Digits THEN Num(DigitsToNat(s))
    ELSE NaN

Negate(x) == [k |-> x.k, v |-> 0 - x.v]

\* Number(s): StringToNumber on the decimal-integer subset of the grammar
Number(s) ==
    LET t == Trim(s) IN
    IF t = <<>> THEN Num(0)
    ELSE IF t[1] = "-" THEN Negate(UnsignedNumber(Tail(t)))
    ELSE IF t[1] = "+" THEN UnsignedNumber(Tail(t))
    ELSE UnsignedNumber(t)

\* ------------------------------------------------------------------------
\* State
\* ------------------------------------------------------------------------
VARIABLES
    count,          \* useState<number>: the current count
    history,        \* useState<number[]>: the recorded counts
    step,           \* useState<number>: the step
    isSaving,       \* useState<boolean>: the saving indicator
    stepRef,        \* useRef: latest step, read by the key listener
    saveTimerRef,   \* useRef: handle of the scheduled save, or NoTimer
    isUnmountedRef, \* useRef: set by the unmount cleanup
    timers,         \* window timer table: the timeouts not yet fired or cleared
    localStorage,   \* the store: a function from its keys to strings
    listeners,      \* number of keydown listeners registered on document
    mounted         \* the component is mounted

coreVars == <<count, history, step, isSaving, stepRef, saveTimerRef,
              isUnmountedRef, timers, localStorage, listeners, mounted>>

\* ------------------------------------------------------------------------
\* Initial state of count and history (lazy useState initialisers)
\* ------------------------------------------------------------------------
\* localStorage operations on the store value
HasItem(store, key) == key \in DOMAIN store
GetItem(store, key) == store[key]
SetItem(store, key, value) == (key :> value) @@ store
RemoveItem(store, key) == [k \in (DOMAIN store) \ {key} |-> store[k]]
EmptyStore == [k \in {} |-> <<>>]

\* variant: the initialiser does not read the store
InitialCount_IgnoresStore(store, fails) == 0

\* `fails`: localStorage.getItem throws (storage access denied)
InitialCount(store, fails) ==
    IF fails THEN 0
    ELSE IF HasItem(store, STORAGE_KEY)
         THEN Number(GetItem(store, STORAGE_KEY)).v
         ELSE 0

InitialHistory(store, fails) ==
    IF fails THEN <<0>>
    ELSE LET initial == IF HasItem(store, STORAGE_KEY)
                        THEN Number(GetItem(store, STORAGE_KEY)).v
                        ELSE 0
         IN <<initial>>

\* ------------------------------------------------------------------------
\* Effects
\* ------------------------------------------------------------------------
\* variant: the timeout is not cleared
ClearTimeout_Noop(tms, id) == tms

\* window.clearTimeout(id)
ClearTimeout(tms, id) == {t \in tms : t.id # id}

\* window.setTimeout returns a handle no live timer or reference holds
FreshId(tms) ==
    CHOOSE i \in 1..(Cardinality(tms) + 1) : \A t \in tms : t.id # i

\* variant: the sync effect is missing, the reference keeps its first value
StepRefEffect_Stale(ref, oldStep, newStep) == ref

\* stepRef sync effect, deps [step]
StepRefEffect(ref, oldStep, newStep) ==
    IF newStep # oldStep THEN newStep ELSE ref

\* variant: the updater appends without comparing to the last entry
HistoryEffect_AlwaysAppend(prev, c) == Append(prev, c)

\* variant: the updater puts the new count in front
HistoryEffect_Prepend(prev, c) ==
    IF Len(prev) > 0 /\ prev[Len(prev)] = c THEN prev ELSE <<c>> \o prev

\* variant: the updater returns the previous history
HistoryEffect_Skips(prev, c) == prev

\* history effect, deps [count]: the updater passed to setHistory
HistoryEffect(prev, c) ==
    IF Len(prev) > 0 /\ prev[Len(prev)] = c THEN prev ELSE Append(prev, c)

\* variant: the cleanup drops the handle without clearing the timeout
SaveCleanupTimers_NoClear(tms, ref) == tms

\* cleanup of the save effect: the timer table it leaves
SaveCleanupTimers(tms, ref) ==
    IF ref # NoTimer THEN ClearTimeout(tms, ref) ELSE tms

\* cleanup of the save effect: whether it calls setIsSaving(false)
SaveCleanupSetsFlag(unmountedRef) == ~unmountedRef

\* variant: the body schedules no timeout
SaveEffectTimers_NoSchedule(tms, ref, c) ==
    IF ref # NoTimer THEN ClearTimeout(tms, ref) ELSE tms

\* body of the save effect: the timer table after the effect ran for count c,
\* given the table and the reference the cleanup left
SaveEffectTimers(tms, ref, c) ==
    LET cleared == IF ref # NoTimer THEN ClearTimeout(tms, ref) ELSE tms
        timerId == FreshId(cleared)
    IN cleared \cup {[id |-> timerId, remaining |-> delay, value |-> c]}

\* the handle the save effect stores in saveTimerRef
SaveEffectRef(tms, ref) ==
    LET cleared == IF ref # NoTimer THEN ClearTimeout(tms, ref) ELSE tms
    IN FreshId(cleared)

\* A render in which count changed to c, with `hist` the history state of
\* that render: cleanup of the previous save effect, then the history effect
\* and the save effect, then the render their state updates cause.
CommitCount(c, hist) ==
    LET afterCleanup == SaveCleanupTimers(timers, saveTimerRef) IN
    /\ count' = c
    /\ history' = HistoryEffect(hist, c)
    /\ timers' = SaveEffectTimers(afterCleanup, NoTimer, c)
    /\ saveTimerRef' = SaveEffectRef(afterCleanup, NoTimer)
    /\ isUnmountedRef' = FALSE
    /\ isSaving' = TRUE

\* A render in which count did not change: no effect with deps [count] runs
CommitSameCount(hist) ==
    /\ history' = hist
    /\ UNCHANGED <<count, timers, saveTimerRef, isUnmountedRef, isSaving>>

\* setCount(next) batched with an optional setHistory
SetCount(next, hist) ==
    IF next # count THEN CommitCount(next, hist) ELSE CommitSameCount(hist)

\* ------------------------------------------------------------------------
\* Event handlers
\* ------------------------------------------------------------------------
\* variant: increment ignores the step
increment_AddsOne ==
    /\ mounted
    /\ SetCount(count + 1, history)
    /\ UNCHANGED <<step, stepRef, localStorage, listeners, mounted>>

\* increment: setCount((c) => c + step)
increment ==
    /\ mounted
    /\ SetCount(count + step, history)
    /\ UNCHANGED <<step, stepRef, localStorage, listeners, mounted>>

\* decrement: setCount((c) => c - step)
decrement ==
    /\ mounted
    /\ SetCount(count - step, history)
    /\ UNCHANGED <<step, stepRef, localStorage, listeners, mounted>>

\* the count onKeyDown sets for a key
KeyTarget(key, c, ref) ==
    IF key = "ArrowUp" THEN c + ref
    ELSE IF key = "ArrowDown" THEN c - ref
    ELSE c

Keys == {"ArrowUp", "ArrowDown", "Enter"}

\* onKeyDown, dispatched to the listeners registered on document
onKeyDown(key) ==
    /\ listeners > 0
    /\ SetCount(KeyTarget(key, count, stepRef), history)
    /\ UNCHANGED <<step, stepRef, localStorage, listeners, mounted>>

\* reset: setCount(0); setHistory([]); removeItem (removed: it did not throw)
reset(removed) ==
    /\ mounted
    /\ SetCount(0, <<>>)
    /\ localStorage' = IF removed THEN RemoveItem(localStorage, STORAGE_KEY)
                       ELSE localStorage
    /\ UNCHANGED <<step, stepRef, listeners, mounted>>

\* variant: zero is not replaced by 1
NormalizedStep_AllowsZero(value) ==
    LET parsed == Number(value) IN
    IF ~IsFinite(parsed) \/ IsNaN(parsed) THEN 1 ELSE parsed.v

\* the step handleStepChange sets for the input's value
NormalizedStep(value) ==
    LET parsed == Number(value) IN
    IF ~IsFinite(parsed) \/ IsNaN(parsed) THEN 1
    ELSE IF parsed.v = 0 THEN 1 ELSE parsed.v

\* values typed into the step input
StepInputs ==
    { <<"0">>, <<"a", "b", "c">>, <<"-", "3">>, <<>>, InfinityWord }

\* the step handleStepChange sets, for each of these values
NormalizedSteps == [value \in StepInputs |-> NormalizedStep(value)]

\* handleStepChange(value), and the stepRef sync effect of the render
handleStepChange(value) ==
    /\ mounted
    /\ step' = NormalizedSteps[value]
    /\ stepRef' = StepRefEffect(stepRef, step, step')
    /\ UNCHANGED <<count, history, isSaving, saveTimerRef, isUnmountedRef,
                   timers, localStorage, listeners, mounted>>

\* ------------------------------------------------------------------------
\* The save timer
\* ------------------------------------------------------------------------
\* variant: the callback saves the count one ahead of the one it closed over
TimerFires_OffByOne(t, written) ==
    /\ t \in timers
    /\ t.remaining = 0
    /\ timers' = timers \ {t}
    /\ IF isUnmountedRef
       THEN UNCHANGED <<localStorage, isSaving, saveTimerRef>>
       ELSE /\ localStorage' = IF written
                               THEN SetItem(localStorage, STORAGE_KEY, String(t.value + 1))
                               ELSE localStorage
            /\ isSaving' = FALSE
            /\ saveTimerRef' = NoTimer
    /\ UNCHANGED <<count, history, step, stepRef, isUnmountedRef, listeners, mounted>>

\* variant: the callback leaves the saving flag as it is
TimerFires_KeepsFlag(t, written) ==
    /\ t \in timers
    /\ t.remaining = 0
    /\ timers' = timers \ {t}
    /\ IF isUnmountedRef
       THEN UNCHANGED <<localStorage, saveTimerRef>>
       ELSE /\ localStorage' = IF written
                               THEN SetItem(localStorage, STORAGE_KEY, String(t.value))
                               ELSE localStorage
            /\ saveTimerRef' = NoTimer
    /\ UNCHANGED <<count, history, step, isSaving, stepRef, isUnmountedRef,
                   listeners, mounted>>

\* variant: a write that throws is tried again after the delay
TimerFires_RetriesOnFailure(t, written) ==
    /\ t \in timers
    /\ t.remaining = 0
    /\ IF isUnmountedRef
       THEN /\ timers' = timers \ {t}
            /\ UNCHANGED <<localStorage, isSaving, saveTimerRef>>
       ELSE IF written
       THEN /\ timers' = timers \ {t}
            /\ localStorage' = SetItem(localStorage, STORAGE_KEY, String(t.value))
            /\ isSaving' = FALSE
            /\ saveTimerRef' = NoTimer
       ELSE /\ timers' = (timers \ {t}) \cup {[t EXCEPT !.remaining = delay]}
            /\ UNCHANGED <<localStorage, isSaving, saveTimerRef>>
    /\ UNCHANGED <<count, history, step, stepRef, isUnmountedRef, listeners,
                   mounted>>

\* callback of the timeout t; written: setItem did not throw
TimerFires(t, written) ==
    /\ t \in timers
    /\ t.remaining = 0
    /\ timers' = timers \ {t}
    /\ IF isUnmountedRef
       THEN UNCHANGED <<localStorage, isSaving, saveTimerRef>>
       ELSE /\ localStorage' = IF written
                               THEN SetItem(localStorage, STORAGE_KEY, String(t.value))
                               ELSE localStorage
            /\ isSaving' = FALSE
            /\ saveTimerRef' = NoTimer
    /\ UNCHANGED <<count, history, step, stepRef, isUnmountedRef, listeners,
                   mounted>>

\* time passes; a timeout that is due runs before more time passes
Tick ==
    /\ \A t \in timers : t.remaining > 0
    /\ timers' = {[t EXCEPT !.remaining = t.remaining - TickUnit] : t \in timers}
    /\ UNCHANGED <<count, history, step, isSaving, stepRef, saveTimerRef,
                   isUnmountedRef, localStorage, listeners, mounted>>

\* ------------------------------------------------------------------------
\* Unmount: the effect cleanups, in the order the effects are declared
\* ------------------------------------------------------------------------
\* variant: the save effect and the unmount-tracking effect return no cleanup
Unmount_NoCleanup ==
    /\ mounted
    /\ listeners' = listeners - 1
    /\ mounted' = FALSE
    /\ UNCHANGED <<count, history, step, isSaving, stepRef, saveTimerRef,
                   isUnmountedRef, timers, localStorage>>

\* variant: the keyboard effect returns no cleanup
Unmount_KeepsListener ==
    /\ mounted
    /\ timers' = SaveCleanupTimers(timers, saveTimerRef)
    /\ saveTimerRef' = NoTimer
    /\ isSaving' = IF SaveCleanupSetsFlag(isUnmountedRef) THEN FALSE ELSE isSaving
    /\ isUnmountedRef' = TRUE
    /\ mounted' = FALSE
    /\ UNCHANGED <<count, history, step, stepRef, localStorage, listeners>>

Unmount ==
    /\ mounted
    /\ LET afterSave == SaveCleanupTimers(timers, saveTimerRef)
           \* the save cleanup leaves saveTimerRef null, so the unmount-tracking
           \* cleanup finds no timer to clear
       IN timers' = afterSave
    /\ saveTimerRef' = NoTimer
    /\ isSaving' = IF SaveCleanupSetsFlag(isUnmountedRef) THEN FALSE ELSE isSaving
    /\ isUnmountedRef' = TRUE
    /\ listeners' = listeners - 1
    /\ mounted' = FALSE
    /\ UNCHANGED <<count, history, step, stepRef, localStorage>>

\* ------------------------------------------------------------------------
\* Mount
\* ------------------------------------------------------------------------
\* what the store can hold when the component mounts: nothing, or a count an
\* earlier session saved
StoredAtMount ==
    {EmptyStore} \cup
    {SetItem(EmptyStore, STORAGE_KEY, String(n)) : n \in {0 - MaxStored}}

\* state after the first render and its effects, in the order they are declared
Mount(store, fails) ==
    /\ localStorage = store
    /\ count = InitialCount(store, fails)
    /\ history = HistoryEffect(InitialHistory(store, fails), InitialCount(store, fails))
    /\ step = 1
    /\ stepRef = 1
    /\ isSaving = TRUE
    /\ isUnmountedRef = FALSE
    /\ timers = SaveEffectTimers({}, NoTimer, InitialCount(store, fails))
    /\ saveTimerRef = SaveEffectRef({}, NoTimer)
    /\ listeners = 1
    /\ mounted = TRUE

\* ------------------------------------------------------------------------
\* Observations of a run (they record what happened; no action reads them
\* except to bound the run)
\* ------------------------------------------------------------------------
VARIABLES
    justMounted,  \* no operation has run since mount
    teardownFlagUpdate,  \* setIsSaving has been called since unmount began
    mountRead,    \* store content and read outcome at mount, and the count then
    lastKey,      \* the key of the latest count operation since the last reset or
                  \* step change, "none" when it was a button
    ups,          \* increases since the last reset or step change
    downs,        \* decreases since the last reset or step change
    base,         \* count at the last reset or step change (or at mount)
    held,         \* every value count has held
    transitions,  \* count changes to a different value since mount
    afterReset,   \* "removed"/"failed" from a reset to the next count operation
    timed,        \* this run is observed with a clock (fixed at mount)
    now,          \* timed runs: ms since mount
    changeLog,    \* timed runs: per count change, its time and the writes before it
    writeLog      \* timed runs: per setItem call, its time, value and outcome

obsVars == <<justMounted, teardownFlagUpdate, mountRead, lastKey, ups, downs, base, held, transitions,
             afterReset, timed, now, changeLog, writeLog>>

\* The core counter of src/src/components/AdvancedCounter.tsx: a component of
\* its own, with its own count and history.
VARIABLES
    coreCount,    \* its count state
    coreHistory,  \* its history state
    clicks        \* the buttons clicked so far: +1 for Increment, -1 for Decrement

counterVars == <<coreCount, coreHistory, clicks>>

vars == <<coreVars, obsVars, counterVars>>

\* a run clicks the core counter's buttons at most MaxClicks times
MaxClicks == 6

\* first render of the core counter
CounterMounted ==
    /\ coreCount = 0       \* useState(0)
    /\ coreHistory = <<>>  \* useState<number[]>([])
    /\ clicks = <<>>

\* variant: the history gets the count of the render the click happened in
updateCount_LogsRenderedCount(newCount) ==
    /\ coreCount' = newCount
    /\ coreHistory' = Append(coreHistory, coreCount)

\* updateCount(newCount): setCount(newCount); setHistory(prev => [...prev, newCount])
updateCount(newCount) ==
    /\ coreCount' = newCount
    /\ coreHistory' = Append(coreHistory, newCount)

\* onClick of the buttons, each click handled in the latest render
ClickDecrement ==
    /\ Len(clicks) < MaxClicks
    /\ updateCount(coreCount - 1)
    /\ clicks' = Append(clicks, 0 - 1)
    /\ UNCHANGED <<coreVars, obsVars>>

ClickIncrement ==
    /\ Len(clicks) < MaxClicks
    /\ updateCount(coreCount + 1)
    /\ clicks' = Append(clicks, 1)
    /\ UNCHANGED <<coreVars, obsVars>>

IncreaseOps == {"increment", "ArrowUp"}
DecreaseOps == {"decrement", "ArrowDown"}
CountOps == IncreaseOps \cup DecreaseOps
Rebase == {"reset", "setStep"}

\* user operations of a timed run happen in its first MaxActiveTicks ticks,
\* and a run has at most MaxChanges count changes
UserWindow == timed => now <= MaxActiveTicks * TickUnit

\* bookkeeping of untimed runs
ObserveOps(op) ==
    IF timed THEN UNCHANGED <<ups, downs, base, held, lastKey>>
    ELSE /\ lastKey' = IF op \in {"ArrowUp", "ArrowDown"} THEN op
                       ELSE IF op \in CountOps \cup Rebase THEN "none"
                       ELSE lastKey
         /\ ups' = IF op \in IncreaseOps THEN ups + 1
                   ELSE IF op \in Rebase THEN 0 ELSE ups
         /\ downs' = IF op \in DecreaseOps THEN downs + 1
                     ELSE IF op \in Rebase THEN 0 ELSE downs
         /\ base' = IF op \in Rebase THEN count' ELSE base
         /\ held' = held \cup {count'}

ObserveReset(op, removed) ==
    afterReset' = IF timed THEN afterReset
                  ELSE IF op = "reset" THEN (IF removed THEN "removed" ELSE "failed")
                  ELSE IF op \in CountOps THEN "none"
                  ELSE afterReset

\* bookkeeping of timed runs
ObserveClock(op) ==
    /\ now' = IF timed /\ op = "tick" THEN now + TickUnit ELSE now
    /\ changeLog' = IF timed /\ count' # count
                    THEN Append(changeLog, [t |-> now, w |-> Len(writeLog)])
                    ELSE changeLog

Observe(op) ==
    /\ justMounted' = FALSE
    /\ UNCHANGED counterVars
    /\ teardownFlagUpdate' =
          (teardownFlagUpdate \/ (op = "unmount" /\ SaveCleanupSetsFlag(isUnmountedRef)))
    /\ UNCHANGED <<mountRead, timed>>
    /\ (count' # count) => transitions < MaxChanges
    /\ transitions' = IF count' # count THEN transitions + 1 ELSE transitions
    /\ ObserveOps(op)
    /\ ObserveClock(op)

ObserveUser(op) ==
    /\ UserWindow
    /\ Observe(op)
    /\ ObserveReset(op, FALSE)
    /\ UNCHANGED writeLog

Observed(timing) ==
    /\ \E store \in StoredAtMount, fails \in BOOLEAN :
          /\ timing => (store = EmptyStore /\ ~fails)  \* timed runs: a first visit
          /\ Mount(store, fails)
          /\ mountRead = [store |-> store, fails |-> fails,
                          count |-> count]
    /\ timed = timing
    /\ now = 0
    /\ justMounted = TRUE
    /\ teardownFlagUpdate = FALSE
    /\ lastKey = "none"
    /\ ups = 0
    /\ downs = 0
    /\ base = count
    /\ held = {count}
    /\ transitions = 0
    /\ afterReset = "none"
    /\ changeLog = <<>>
    /\ writeLog = <<>>
    /\ CounterMounted

DoIncrement == increment /\ ObserveUser("increment")

DoDecrement == decrement /\ ObserveUser("decrement")

DoKey == \E key \in Keys : onKeyDown(key) /\ ObserveUser(key)

DoReset ==
    \E removed \in BOOLEAN :
        /\ reset(removed)
        /\ UserWindow
        /\ Observe("reset")
        /\ ObserveReset("reset", removed)
        /\ UNCHANGED writeLog

DoSetStep == \E value \in StepInputs : handleStepChange(value) /\ ObserveUser("setStep")

\* a due timeout's callback runs; written: setItem did not throw
Fire(written) ==
    \E t \in timers :
        /\ TimerFires(t, written)
        /\ Observe("timer")
        /\ writeLog' = IF isUnmountedRef \/ ~timed THEN writeLog
                       ELSE Append(writeLog, [t |-> now, v |-> String(t.value),
                                              ok |-> written])
        /\ UNCHANGED afterReset

DoTimer == \E written \in BOOLEAN : Fire(written)

\* the callback runs in a browser whose setItem does not throw
DoSave == Fire(TRUE)

DoTick ==
    /\ Tick
    /\ timed => now < MaxTime
    /\ Observe("tick")
    /\ UNCHANGED <<afterReset, writeLog>>

DoUnmount ==
    /\ Unmount
    /\ Observe("unmount")
    /\ UNCHANGED <<afterReset, writeLog>>

Init == Observed(FALSE)

Next ==
    \/ DoIncrement
    \/ DoDecrement
    \/ DoKey
    \/ DoReset
    \/ DoSetStep
    \/ DoTimer
    \/ DoTick
    \/ DoUnmount

Spec == Init /\ [][Next]_vars

\* the same program, observed with a clock
TimedSpec == Observed(TRUE) /\ [][Next]_vars

\* the core counter alone, next to a freshly mounted and idle widget
CoreInit == Init /\ mountRead.store = EmptyStore /\ ~mountRead.fails

CoreNext == ClickDecrement \/ ClickIncrement

CoreSpec == CoreInit /\ [][CoreNext]_vars

\* the component stays mounted and setItem does not throw
LiveNext ==
    \/ DoIncrement
    \/ DoDecrement
    \/ DoKey
    \/ DoReset
    \/ DoSetStep
    \/ DoSave
    \/ DoTick

\* the event loop: time passes while a timeout waits, and a due timeout's
\* callback runs
LiveSpec == Init /\ [][LiveNext]_vars /\ WF_vars(DoTick) /\ WF_vars(DoSave)

\* ------------------------------------------------------------------------
\* Properties
\* ------------------------------------------------------------------------
Stored == GetItem(localStorage, STORAGE_KEY)
KeyPresent == HasItem(localStorage, STORAGE_KEY)

\* C1: while the step stays at a fixed value S (since the last reset or step
\* change), count equals the count at that point plus (number of increases
\* minus number of decreases) times S, for button and key operations alike.
C1_CountIsBasePlusNetSteps == count = base + (ups - downs) * step

C1_Witness == ups >= 1 /\ downs >= 1 /\ ups # downs /\ step # 1

\* C2: after reset(), until the next count operation, count is 0 and history
\* is the empty sequence.
C2_ResetLeavesHistoryEmpty ==
    afterReset # "none" => (count = 0 /\ history = <<>>)

\* C3: after a reset (here: one whose removeItem succeeded), until the next
\* increment, decrement or key press, the store does not hold the key.
C3_KeyAbsentAfterReset == afterReset = "removed" => ~KeyPresent

\* C4: when the last three count changes happened at t, t+100 and t+200, the
\* setItem calls issued since the first of them are at most one, it is issued
\* at t+600 with the count set at t+200, and it has been issued once the
\* clock is past t+600 with the component still mounted.
C4_Changes ==
    LET n == Len(changeLog) IN [i \in 1..3 |-> changeLog[n - 3 + i]]

C4_Scenario ==
    /\ Len(changeLog) >= 3
    /\ C4_Changes[2].t = C4_Changes[1].t + 100
    /\ C4_Changes[3].t = C4_Changes[1].t + 200

C4_Writes == SubSeq(writeLog, C4_Changes[1].w + 1, Len(writeLog))

C4_DebounceWritesLastValueOnce ==
    C4_Scenario =>
        /\ Len(C4_Writes) <= 1
        /\ \A i \in 1..Len(C4_Writes) :
              /\ C4_Writes[i].t = C4_Changes[1].t + 600
              /\ C4_Writes[i].v = String(count)
        /\ (mounted /\ now > C4_Changes[1].t + 600) => Len(C4_Writes) = 1

C4_Witness ==
    /\ C4_Scenario
    /\ C4_Changes[1].t = 0
    /\ Len(C4_Writes) = 1
    /\ C4_Writes[1].ok
    /\ Stored = String(count)

\* C5: once the component is unmounted no timeout is pending and the store
\* content never changes again.
C5_NoWriteAfterTeardown ==
    [][(~mounted') =>
          /\ timers' = {}
          /\ (~mounted => localStorage' = localStorage)]_vars

\* unmounted within the quiet interval of the last change, and the clock has
\* passed the time the save was due
C5_Witness ==
    /\ ~mounted
    /\ changeLog # <<>>
    /\ now > changeLog[Len(changeLog)].t + delay
    /\ Len(writeLog) = changeLog[Len(changeLog)].w

\* C6: step is at least 1 in every reachable state.
C6_StepAtLeastOne == step >= 1

\* C7: a key signal changes count by the current step: ArrowUp adds the step
\* set by the most recent step change, ArrowDown subtracts it.
C7_KeyUsesLatestStep ==
    [][/\ onKeyDown("ArrowUp") => count' = count + step
       /\ onKeyDown("ArrowDown") => count' = count - step]_vars

C7_Witness == lastKey = "ArrowUp" /\ step # 1 /\ count = base + step

\* C8: history has no two consecutive equal entries, and is no longer than
\* the number of count changes since mount plus one.
C8_HistoryNoRepeatsAndBounded ==
    /\ \A i \in 1..(Len(history) - 1) : history[i] # history[i + 1]
    /\ Len(history) <= transitions + 1

C8_Witness ==
    /\ Len(history) = transitions + 1
    /\ Len(history) >= 3
    /\ history[1] = history[Len(history)]

\* C9: when the store at mount was empty or held the count the component
\* started from, a stored value is the decimal string of a value count has held.
C9_MountConsistent ==
    HasItem(mountRead.store, STORAGE_KEY) =>
        GetItem(mountRead.store, STORAGE_KEY) = String(mountRead.count)

C9_PersistedWasHeld ==
    (C9_MountConsistent /\ KeyPresent) => \E h \in held : Stored = String(h)

C9_Witness ==
    /\ C9_MountConsistent
    /\ KeyPresent
    /\ Stored # String(mountRead.count)
    /\ Stored # String(count)

\* C10: right after mount, count is the number stored under the key when the
\* key is present and readable, and 0 otherwise; history is <<count>>.
C10_StoredNumber ==
    CHOOSE n \in (0 - MaxStored - 1)..(MaxStored + 1) :
        String(n) = GetItem(mountRead.store, STORAGE_KEY)

C10_InitialLoad ==
    justMounted =>
        /\ count = IF ~mountRead.fails /\ HasItem(mountRead.store, STORAGE_KEY)
                   THEN C10_StoredNumber ELSE 0
        /\ history = <<count>>

C10_Witness == justMounted /\ count # 0

\* C11: at most one save timeout is pending, and it is the one saveTimerRef
\* holds, scheduled for the current count: a timeout a later change or the
\* unmount cancelled is no longer in the timer table, so it cannot write.
C11_AtMostOnePendingSave ==
    /\ Cardinality(timers) <= 1
    /\ \A t \in timers : mounted /\ t.id = saveTimerRef /\ t.value = count

\* a third count is waiting to be saved and its timeout is due
C11_Witness ==
    /\ transitions >= 2
    /\ \E t \in timers : t.remaining = 0 /\ t.value = count

\* C12: while mounted, isSaving is true exactly when a save timeout is
\* pending (scheduled, not fired, not cancelled).
C12_SavingIffPending == mounted => (isSaving <=> timers # {})

\* one save has completed and another is pending
C12_Witness ==
    /\ mounted
    /\ isSaving
    /\ KeyPresent
    /\ ~HasItem(mountRead.store, STORAGE_KEY)
    /\ Stored # String(count)

\* C13: when the save timeout fires while mounted and setItem throws,
\* isSaving becomes false, the handle is cleared, count, step, history and
\* the store are unchanged and no timeout is pending afterwards.
C13_FailedWriteIsSwallowed ==
    [][(mounted /\ \E t \in timers : TimerFires(t, FALSE)) =>
          /\ isSaving' = FALSE
          /\ saveTimerRef' = NoTimer
          /\ timers' = {}
          /\ UNCHANGED <<count, step, history, localStorage>>]_vars

\* the timeout has fired and no reset has removed the key since the last
\* count operation, yet the key is absent: the write threw
C13_Witness ==
    /\ mounted
    /\ timers = {}
    /\ ~isSaving
    /\ ~KeyPresent
    /\ afterReset = "none"
    /\ transitions >= 1

\* C14: from the moment unmount begins no update of the saving flag is
\* issued: the cleanups that run at unmount do not call setIsSaving.
C14_NoFlagUpdateInTeardown == ~teardownFlagUpdate

\* C15: exactly one keydown listener is registered in every mounted state,
\* whatever happens to step and count; none is registered after unmount;
\* an unmounted component stays unmounted and its count and history no
\* longer change (key presses included).
C15_OneListenerWhileMounted ==
    [][/\ listeners = (IF mounted THEN 1 ELSE 0)
       /\ listeners' = (IF mounted' THEN 1 ELSE 0)
       /\ ~mounted => (~mounted' /\ count' = count /\ history' = history)]_vars

\* unmounted after a step change and a count change
C15_Witness == ~mounted /\ listeners = 0 /\ step # 1 /\ transitions >= 1

\* C16: a step that is not a reset and changes count to a value other than
\* the last history entry appends that value to history; a step that
\* leaves count as it is (setStep, a firing timeout, a tick, a key that is
\* not an arrow, unmount) leaves history as it is.
C16_HistoryAppendOnly ==
    [][(~ \E removed \in BOOLEAN : reset(removed)) =>
          /\ (count' # count /\ (history = <<>> \/ history[Len(history)] # count'))
                => history' = Append(history, count')
          /\ count' = count => history' = history]_vars

\* three entries logged since the last reset, with a step change on the way
C16_Witness ==
    /\ Len(history) >= 3
    /\ afterReset = "none"
    /\ step # 1
    /\ history[Len(history)] = count

\* the step the claim gives for each input of the step field
C17_Expected(value) ==
    CASE value = <<"0">> -> 1
      [] value = <<"a", "b", "c">> -> 1
      [] value = <<>> -> 1
      [] value = InfinityWord -> 1
      [] value = <<"-", "3">> -> 0 - 3

\* C17: handleStepChange sets step to 1 for an input that is not a number,
\* not finite, empty or zero and to the parsed number otherwise, and leaves
\* count, history, the store, isSaving and the pending timeout as they are.
C17_SetStepOnlySetsStep ==
    [][\A value \in StepInputs :
          handleStepChange(value) =>
              /\ step' = C17_Expected(value)
              /\ UNCHANGED <<count, history, localStorage, isSaving, timers,
                             saveTimerRef>>]_vars

\* the step was set to a parsed number while a changed count's save is pending
C17_Witness ==
    /\ step = 0 - 3
    /\ ups = 0
    /\ downs = 0
    /\ transitions >= 1
    /\ afterReset = "none"
    /\ isSaving
    /\ timers # {}

\* C19: history is empty or ends with the current count, and it is empty
\* only while the latest count operation is a reset.
C19_HistoryEndsAtCount ==
    /\ history = <<>> \/ history[Len(history)] = count
    /\ history = <<>> => afterReset # "none"

\* history emptied by a reset after count had moved and come back to 0
C19_Witness ==
    /\ mounted
    /\ history = <<>>
    /\ afterReset # "none"
    /\ transitions >= 1

\* C18 as stated: once nothing is pending (the state the component stays in
\* when no further operation occurs), the store holds String(count) and
\* isSaving is false.
C18_QuiescentStoreHoldsCount ==
    timers = {} => (~isSaving /\ KeyPresent /\ Stored = String(count))

\* C18: while the component stays mounted and setItem succeeds, eventually
\* and from then on no save is pending, isSaving is false, and the store
\* holds String(count), or count is 0 and the key is absent (removed by a
\* reset that left count at 0, so that no save followed it).
C18_EventuallySavedOrCleared ==
    <>[](/\ timers = {}
         /\ ~isSaving
         /\ IF KeyPresent THEN Stored = String(count)
            ELSE count = 0)

\* a changed count has been saved and nothing is pending
C18_Witness ==
    /\ transitions >= 2
    /\ timers = {}
    /\ ~isSaving
    /\ KeyPresent
    /\ Stored = String(count)
    /\ count # 0

\* the core counter's count after the first i clicks
RECURSIVE C20_CountAfter(_)
C20_CountAfter(i) == IF i = 0 THEN 0 ELSE C20_CountAfter(i - 1) + clicks[i]

\* C20: in the core counter, after n clicks the history has n entries, entry
\* i is the count after the i-th click, consecutive entries differ by
\* exactly 1, and for n > 0 the count is the last entry.
C20_HistoryLogsEveryClick ==
    LET n == Len(clicks) IN
    /\ Len(coreHistory) = n
    /\ \A i \in 1..n : coreHistory[i] = C20_CountAfter(i)
    /\ \A i \in 2..n : coreHistory[i] - coreHistory[i - 1] \in {1, 0 - 1}
    /\ n > 0 => coreCount = coreHistory[n]

\* clicks in both directions, with a count visited twice
C20_Witness ==
    /\ Len(clicks) >= 4
    /\ coreCount # 0
    /\ \E i, j \in 1..Len(coreHistory) : i < j /\ coreHistory[i] = coreHistory[j]

====
